---- MODULE Spec2Model ----
(* Model of main_git.py: a batch job that fetches the JPX ticker list,     *)
(* fans fetch_and_filter out over a ThreadPoolExecutor, collects the rows  *)
(* with as_completed, writes a CSV and mails a summary.                    *)
(*                                                                         *)
(* Numbers the program holds as floats are held here in hundredths         *)
(* (fixed point): trailingPE 15.00 is 1500, returnOnEquity 0.10 is 10.     *)
EXTENDS Integers, Sequences, FiniteSets, TLC

VARIABLES
    pc,               \* position of the main thread in the script
    jpx,              \* environment: the JPX spreadsheet (or a failing download)
    yfInfo,           \* environment: per-code outcome of yf.Ticker(t).info
    GMAIL_USER,       \* os.environ.get("GMAIL_USER")
    GMAIL_PASSWORD,   \* os.environ.get("GMAIL_APP_PASSWORD")
    df_tickers,       \* rows of the sheet kept after the market filter
    ticker_list,      \* the tickers, code + ".T"
    futures,          \* the submitted tasks, in submission order
    collected,        \* indices of futures as_completed has already yielded
    filtered_stocks,  \* the list the collector appends to
    merged_df,        \* the merged frame that is written and mailed
    csv_file,         \* the file at output_path: <<>> when absent, else <<rows>>
    csv_writes,       \* number of to_csv calls so far
    msg,              \* the assembled message: <<>> before assembly
    send_attempts,    \* number of times the SMTP block was entered
    outbox,           \* messages the relay accepted
    log               \* what was printed

vars == <<pc, jpx, yfInfo, GMAIL_USER, GMAIL_PASSWORD, df_tickers, ticker_list,
          futures, collected, filtered_stocks, merged_df, csv_file, csv_writes,
          msg, send_attempts, outbox, log>>

-----------------------------------------------------------------------------
(* Bounds of the model *)

\* number of listed issues in the small mock sheets
SmallTickers == 2

\* number of issues beyond the pool size in the large mock sheet
ExtraTickers == 1

-----------------------------------------------------------------------------
(* Program constants *)

roe_threshold == 10
per_threshold == 15
pbr_threshold == 1
max_workers == 10
\* the factor of "roe * 100"
Percent == 100
\* merged_df.head(5)
HeadRows == 5

\* one unit of a float, in the hundredths the model counts in
Unit == Percent

None == <<>>
Some(v) == <<v>>

NoResult == [kind |-> "None"]
RowResult(row) == [kind |-> "row", row |-> row]
Raised == [kind |-> "raise"]
Unset == [kind |-> "unset"]

target_markets == {"prime", "standard", "growth"}

\* "コード".zfill(4) + ".T"
TickerOf(code) == <<code, ".T">>
\* Ticker.str.replace(".T", "")
KeyOf(ticker) == ticker[1]

Truthy(s) == s /= ""

-----------------------------------------------------------------------------
(* The mock environments a run may start in *)

Info(r, e, b) == [raises |-> FALSE, returnOnEquity |-> r, trailingPE |-> e,
                  priceToBook |-> b]
RaisingInfo == [raises |-> TRUE, returnOnEquity |-> None, trailingPE |-> None,
                priceToBook |-> None]

\* values around each threshold, and a missing value
RoeValues == {None} \cup {Some(v) : v \in {roe_threshold - 1, roe_threshold, roe_threshold + 1}}
PerValues == {None} \cup {Some(v) : v \in {per_threshold * Unit - 1, per_threshold * Unit,
                                            per_threshold * Unit + 1}}
PbrValues == {None} \cup {Some(v) : v \in {pbr_threshold * Unit - 1, pbr_threshold * Unit,
                                            pbr_threshold * Unit + 1}}

AllInfos == {RaisingInfo} \cup {Info(r, e, b) : r \in RoeValues, e \in PerValues, b \in PbrValues}

MatchInfo == Info(Some(roe_threshold + 1), Some(per_threshold * Unit - 1),
                  Some(pbr_threshold * Unit - 1))
EdgeInfo == Info(Some(roe_threshold), Some(per_threshold * Unit - 1),
                 Some(pbr_threshold * Unit - 1))
MissingInfo == Info(Some(roe_threshold + 1), Some(per_threshold * Unit - 1), None)
CoreInfos == <<MatchInfo, RaisingInfo, MissingInfo, EdgeInfo>>

SheetRow(code, market) == [code |-> code, market |-> market, name |-> <<"name", code>>]
\* n listed issues of the target markets followed by one ETF row
Sheet(n) == [i \in 1..(n + 1) |->
               IF i <= n THEN SheetRow(i, IF i % 2 = 1 THEN "prime" ELSE "standard")
               ELSE SheetRow(i, "etf")]

CredValues == {"", "set"}

World(sheet, info, user, password) ==
    [jpx |-> sheet, info |-> info, user |-> user, password |-> password]

FailedSheet == [error |-> TRUE, rows |-> <<>>]
GoodSheet(rows) == [error |-> FALSE, rows |-> rows]

\* the sheet cannot be downloaded or parsed
ErrorWorlds == {World(FailedSheet, <<>>, u, p) : u \in CredValues, p \in CredValues}
\* one issue, every combination of fundamentals
SingleWorlds == {World(GoodSheet(Sheet(1)), <<i>>, u, p) :
                    i \in AllInfos, u \in CredValues, p \in CredValues}
\* a few issues, every combination of the core outcomes
SmallWorlds == {World(GoodSheet(Sheet(SmallTickers)), f, u, p) :
                    f \in [1..SmallTickers -> {CoreInfos[k] : k \in 1..Len(CoreInfos)}],
                    u \in CredValues, p \in CredValues}
\* more issues than the pool has workers: the first and the last one match, the
\* others cycle through the core outcomes that do not
BigTickers == max_workers + ExtraTickers
BigWorlds == {World(GoodSheet(Sheet(BigTickers)),
                    [c \in 1..BigTickers |->
                        IF c \in {1, BigTickers} THEN MatchInfo
                        ELSE CoreInfos[(c % (Len(CoreInfos) - 1)) + 2]],
                    "set", "set")}
\* a sheet with no issue of the target markets
EmptyWorlds == {World(GoodSheet(Sheet(0)), <<>>, u, p) : u \in CredValues, p \in CredValues}

Worlds == ErrorWorlds \cup EmptyWorlds \cup SingleWorlds \cup SmallWorlds \cup BigWorlds

-----------------------------------------------------------------------------
(* fetch_and_filter *)

\* yf.Ticker(ticker).info
StockInfo(ticker) == yfInfo[KeyOf(ticker)]

\* a plausible slip: ">=" for ">" on ROE
fetch_and_filter_ge(ticker) ==
    LET info == StockInfo(ticker) IN
    IF info.raises THEN NoResult
    ELSE
      LET roe0 == info.returnOnEquity
          roe == IF roe0 /= None THEN Some(roe0[1] * Percent) ELSE None
          per == info.trailingPE
          pbr == info.priceToBook
      IN IF roe = None \/ per = None \/ pbr = None THEN NoResult
         ELSE IF roe[1] >= roe_threshold * Unit /\ per[1] < per_threshold * Unit
                 /\ pbr[1] < pbr_threshold * Unit
              THEN RowResult([Ticker |-> ticker, PBR |-> pbr[1], PER |-> per[1], ROE |-> roe[1]])
              ELSE NoResult

\* a plausible slip: info.get(field, 0) for info.get(field, None)
fetch_and_filter_default0(ticker) ==
    LET info == StockInfo(ticker) IN
    IF info.raises THEN NoResult
    ELSE
      LET Get(x) == IF x = None THEN Some(0) ELSE x
          roe0 == Get(info.returnOnEquity)
          roe == Some(roe0[1] * Percent)
          per == Get(info.trailingPE)
          pbr == Get(info.priceToBook)
      IN IF roe[1] > roe_threshold * Unit /\ per[1] < per_threshold * Unit
            /\ pbr[1] < pbr_threshold * Unit
         THEN RowResult([Ticker |-> ticker, PBR |-> pbr[1], PER |-> per[1], ROE |-> roe[1]])
         ELSE NoResult

\* a plausible slip: no try/except around the fetch
fetch_and_filter_notry(ticker) ==
    LET info == StockInfo(ticker) IN
    IF info.raises THEN Raised
    ELSE
      LET roe0 == info.returnOnEquity
          roe == IF roe0 /= None THEN Some(roe0[1] * Percent) ELSE None
          per == info.trailingPE
          pbr == info.priceToBook
      IN IF roe = None \/ per = None \/ pbr = None THEN NoResult
         ELSE IF roe[1] > roe_threshold * Unit /\ per[1] < per_threshold * Unit
                 /\ pbr[1] < pbr_threshold * Unit
              THEN RowResult([Ticker |-> ticker, PBR |-> pbr[1], PER |-> per[1], ROE |-> roe[1]])
              ELSE NoResult

fetch_and_filter(ticker) ==
    LET info == StockInfo(ticker) IN
    IF info.raises THEN NoResult            \* except Exception: return None
    ELSE
      LET roe0 == info.returnOnEquity
          roe == IF roe0 /= None THEN Some(roe0[1] * Percent) ELSE None
          per == info.trailingPE
          pbr == info.priceToBook
      IN IF roe = None \/ per = None \/ pbr = None THEN NoResult
         ELSE IF roe[1] > roe_threshold * Unit /\ per[1] < per_threshold * Unit
                 /\ pbr[1] < pbr_threshold * Unit
              THEN RowResult([Ticker |-> ticker, PBR |-> pbr[1], PER |-> per[1], ROE |-> roe[1]])
              ELSE NoResult

-----------------------------------------------------------------------------
(* The script *)

Init ==
    /\ \E w \in Worlds :
         /\ jpx = w.jpx
         /\ yfInfo = w.info
         /\ GMAIL_USER = w.user
         /\ GMAIL_PASSWORD = w.password
    /\ pc = "fetch_list"
    /\ df_tickers = <<>>
    /\ ticker_list = <<>>
    /\ futures = <<>>
    /\ collected = {}
    /\ filtered_stocks = <<>>
    /\ merged_df = <<>>
    /\ csv_file = None
    /\ csv_writes = 0
    /\ msg = None
    /\ send_attempts = 0
    /\ outbox = <<>>
    /\ log = {}

IsTarget(row) == row.market \in target_markets

\* a plausible slip: the except block does not exit()
FetchTickerList_noexit ==
    /\ pc = "fetch_list"
    /\ pc' = "submit"
    /\ IF jpx.error
       THEN /\ log' = log \cup {<<"list_error", "">>}
            /\ UNCHANGED <<df_tickers, ticker_list>>
       ELSE /\ df_tickers' = SelectSeq(jpx.rows, IsTarget)
            /\ ticker_list' = [i \in 1..Len(df_tickers') |-> TickerOf(df_tickers'[i].code)]
            /\ log' = log \cup {<<"ticker_count", "">>}
    /\ UNCHANGED <<jpx, yfInfo, GMAIL_USER, GMAIL_PASSWORD, futures, collected,
                   filtered_stocks, merged_df, csv_file, csv_writes, msg,
                   send_attempts, outbox>>

FetchTickerList ==
    /\ pc = "fetch_list"
    /\ IF jpx.error
       THEN /\ log' = log \cup {<<"list_error", "">>}
            /\ pc' = "exited"
            /\ UNCHANGED <<df_tickers, ticker_list>>
       ELSE /\ df_tickers' = SelectSeq(jpx.rows, IsTarget)
            /\ ticker_list' = [i \in 1..Len(df_tickers') |-> TickerOf(df_tickers'[i].code)]
            /\ log' = log \cup {<<"ticker_count", "">>}
            /\ pc' = "submit"
    /\ UNCHANGED <<jpx, yfInfo, GMAIL_USER, GMAIL_PASSWORD, futures, collected,
                   filtered_stocks, merged_df, csv_file, csv_writes, msg,
                   send_attempts, outbox>>


Future(ticker) == [ticker |-> ticker, state |-> "pending", result |-> Unset]

\* executor.submit(fetch_and_filter, ticker), one ticker of the list at a time
Submit ==
    /\ pc = "submit"
    /\ Len(futures) < Len(ticker_list)
    /\ futures' = Append(futures, Future(ticker_list[Len(futures) + 1]))
    /\ UNCHANGED <<pc, jpx, yfInfo, GMAIL_USER, GMAIL_PASSWORD, df_tickers, ticker_list,
                   collected, filtered_stocks, merged_df, csv_file, csv_writes, msg,
                   send_attempts, outbox, log>>

\* the list comprehension is exhausted: as_completed(futures) starts
AsCompleted ==
    /\ pc = "submit"
    /\ Len(futures) = Len(ticker_list)
    /\ pc' = "collect"
    /\ UNCHANGED <<jpx, yfInfo, GMAIL_USER, GMAIL_PASSWORD, df_tickers, ticker_list,
                   futures, collected, filtered_stocks, merged_df, csv_file, csv_writes,
                   msg, send_attempts, outbox, log>>

InState(st) == {i \in 1..Len(futures) : futures[i].state = st}
Running == InState("running")
Pending == InState("pending")
Finished == InState("finished")

PoolOpen == pc \in {"submit", "collect"}

\* a plausible slip: a pool that starts a thread per task
Start_unbounded(i) ==
    /\ PoolOpen
    /\ i \in Pending
    /\ \A j \in Pending : i <= j
    /\ futures' = [futures EXCEPT ![i].state = "running"]
    /\ UNCHANGED <<pc, jpx, yfInfo, GMAIL_USER, GMAIL_PASSWORD, df_tickers, ticker_list,
                   collected, filtered_stocks, merged_df, csv_file, csv_writes, msg,
                   send_attempts, outbox, log>>

\* a worker thread takes the oldest queued work item
Start(i) ==
    /\ PoolOpen
    /\ i \in Pending
    /\ \A j \in Pending : i <= j
    /\ Cardinality(Running) < max_workers
    /\ futures' = [futures EXCEPT ![i].state = "running"]
    /\ UNCHANGED <<pc, jpx, yfInfo, GMAIL_USER, GMAIL_PASSWORD, df_tickers, ticker_list,
                   collected, filtered_stocks, merged_df, csv_file, csv_writes, msg,
                   send_attempts, outbox, log>>

\* the worker's call of fetch_and_filter returns and the future is set
Finish(i) ==
    /\ PoolOpen
    /\ i \in Running
    /\ futures' = [futures EXCEPT ![i].state = "finished",
                                  ![i].result = fetch_and_filter(futures[i].ticker)]
    /\ UNCHANGED <<pc, jpx, yfInfo, GMAIL_USER, GMAIL_PASSWORD, df_tickers, ticker_list,
                   collected, filtered_stocks, merged_df, csv_file, csv_writes, msg,
                   send_attempts, outbox, log>>

\* the body of the collecting loop for a future whose result is r
Consume(i, r, stocks) ==
    /\ collected' = collected \cup {i}
    /\ IF r.kind = "raise"
       THEN /\ pc' = "crashed"                \* future.result() re-raises
            /\ UNCHANGED filtered_stocks
       ELSE /\ pc' = pc
            /\ filtered_stocks' = IF r.kind = "row" THEN stocks ELSE filtered_stocks
    /\ UNCHANGED <<jpx, yfInfo, GMAIL_USER, GMAIL_PASSWORD, df_tickers, ticker_list,
                   futures, merged_df, csv_file, csv_writes, msg, send_attempts,
                   outbox, log>>

\* a plausible slip: "filtered_stocks = [result]" for "filtered_stocks.append(result)"
Collect_overwrite(i) ==
    /\ pc = "collect"
    /\ i \in Finished \ collected
    /\ Consume(i, futures[i].result, <<futures[i].result.row>>)

\* a plausible slip: the loop walks the futures without waiting for them
Collect_nowait(i) ==
    /\ pc = "collect"
    /\ i \in (1..Len(futures)) \ collected
    /\ Consume(i, futures[i].result, Append(filtered_stocks, futures[i].result.row))

\* as_completed yields a finished future; result = future.result(); append if truthy
Collect(i) ==
    /\ pc = "collect"
    /\ i \in Finished \ collected
    /\ Consume(i, futures[i].result, Append(filtered_stocks, futures[i].result.row))

\* a plausible slip: leaving the pool without draining as_completed
ExitPool_early ==
    /\ pc = "collect"
    /\ pc' = "csv"
    /\ UNCHANGED <<jpx, yfInfo, GMAIL_USER, GMAIL_PASSWORD, df_tickers, ticker_list,
                   futures, collected, filtered_stocks, merged_df, csv_file, csv_writes,
                   msg, send_attempts, outbox, log>>

\* as_completed is exhausted and the with block shuts the pool down
ExitPool ==
    /\ pc = "collect"
    /\ collected = 1..Len(futures)
    /\ pc' = "csv"
    /\ UNCHANGED <<jpx, yfInfo, GMAIL_USER, GMAIL_PASSWORD, df_tickers, ticker_list,
                   futures, collected, filtered_stocks, merged_df, csv_file, csv_writes,
                   msg, send_attempts, outbox, log>>

\* the name the left join finds for a key (NaN when the key is not listed)
NameOf(key) ==
    LET hits == {i \in 1..Len(df_tickers) : df_tickers[i].code = key}
    IN IF hits = {} THEN None ELSE df_tickers[CHOOSE i \in hits : TRUE].name

MergedRow(row) == [Ticker |-> row.Ticker, name |-> NameOf(KeyOf(row.Ticker)),
                   PBR |-> row.PBR, PER |-> row.PER, ROE |-> row.ROE]
Merged(stocks) == [i \in 1..Len(stocks) |-> MergedRow(stocks[i])]

\* a plausible slip: to_csv outside the "if not df_filtered.empty"
SaveCsv_always ==
    /\ pc = "csv"
    /\ merged_df' = Merged(filtered_stocks)
    /\ csv_file' = Some(merged_df')
    /\ csv_writes' = csv_writes + 1
    /\ log' = log \cup {<<"extracted", "">>}
    /\ pc' = "email"
    /\ UNCHANGED <<jpx, yfInfo, GMAIL_USER, GMAIL_PASSWORD, df_tickers, ticker_list,
                   futures, collected, filtered_stocks, msg, send_attempts, outbox>>

SaveCsv ==
    /\ pc = "csv"
    /\ IF filtered_stocks /= <<>>
       THEN /\ merged_df' = Merged(filtered_stocks)
            /\ csv_file' = Some(merged_df')
            /\ csv_writes' = csv_writes + 1
            /\ log' = log \cup {<<"extracted", "">>}
       ELSE /\ merged_df' = <<>>
            /\ log' = log \cup {<<"no_match", "">>}
            /\ UNCHANGED <<csv_file, csv_writes>>
    /\ pc' = "email"
    /\ UNCHANGED <<jpx, yfInfo, GMAIL_USER, GMAIL_PASSWORD, df_tickers, ticker_list,
                   futures, collected, filtered_stocks, msg, send_attempts, outbox>>

Min(a, b) == IF a < b THEN a ELSE b
Head5(df) == SubSeq(df, 1, Min(HeadRows, Len(df)))

Body(df) == IF df = <<>> THEN [none |-> TRUE, head |-> <<>>]
            ELSE [none |-> FALSE, head |-> Head5(df)]

\* the message is assembled when both credentials are set, else the send is skipped
PrepareMail ==
    /\ pc = "email"
    /\ IF Truthy(GMAIL_USER) /\ Truthy(GMAIL_PASSWORD)
       THEN /\ msg' = Some([From |-> GMAIL_USER, To |-> GMAIL_USER, body |-> Body(merged_df),
                            attachment |-> IF merged_df /= <<>> /\ csv_file /= None
                                           THEN csv_file ELSE None])
            /\ log' = log \cup {<<"preparing", "">>}
            /\ pc' = "send"
       ELSE /\ log' = log \cup {<<"skipped", "">>}
            /\ pc' = "done"
            /\ UNCHANGED msg
    /\ UNCHANGED <<jpx, yfInfo, GMAIL_USER, GMAIL_PASSWORD, df_tickers, ticker_list,
                   futures, collected, filtered_stocks, merged_df, csv_file, csv_writes,
                   send_attempts, outbox>>

\* the calls of the SMTP block, in order; each may raise
SmtpCalls == <<"connect", "starttls", "login", "send_message", "quit">>
SmtpIndex(call) == CHOOSE k \in 1..Len(SmtpCalls) : SmtpCalls[k] = call
\* the relay has the message once send_message returned
Delivered(failing) == failing = "none" \/ SmtpIndex(failing) > SmtpIndex("send_message")

\* a plausible slip: the handler removes the CSV when the send fails
SendMail_cleanup(failing) ==
    /\ pc = "send"
    /\ send_attempts' = send_attempts + 1
    /\ outbox' = IF Delivered(failing) THEN Append(outbox, msg[1]) ELSE outbox
    /\ log' = log \cup {IF failing = "none" THEN <<"sent", "">> ELSE <<"send_error", failing>>}
    /\ csv_file' = IF failing = "none" THEN csv_file ELSE None
    /\ pc' = "done"
    /\ UNCHANGED <<jpx, yfInfo, GMAIL_USER, GMAIL_PASSWORD, df_tickers, ticker_list,
                   futures, collected, filtered_stocks, merged_df, csv_writes, msg>>

\* the try block of the send: `failing` is the call that raises, or "none"
SendMail(failing) ==
    /\ pc = "send"
    /\ send_attempts' = send_attempts + 1
    /\ outbox' = IF Delivered(failing) THEN Append(outbox, msg[1]) ELSE outbox
    /\ log' = log \cup {IF failing = "none" THEN <<"sent", "">> ELSE <<"send_error", failing>>}
    /\ pc' = "done"
    /\ UNCHANGED <<jpx, yfInfo, GMAIL_USER, GMAIL_PASSWORD, df_tickers, ticker_list,
                   futures, collected, filtered_stocks, merged_df, csv_file, csv_writes, msg>>

SmtpOutcomes == {"none"} \cup {SmtpCalls[k] : k \in 1..Len(SmtpCalls)}

Next ==
    \/ FetchTickerList
    \/ Submit
    \/ AsCompleted
    \/ \E i \in 1..Len(futures) : Start(i)
    \/ \E i \in 1..Len(futures) : Finish(i)
    \/ \E i \in 1..Len(futures) : Collect(i)
    \/ ExitPool
    \/ SaveCsv
    \/ PrepareMail
    \/ \E failing \in SmtpOutcomes : SendMail(failing)

Spec == Init /\ [][Next]_vars

-----------------------------------------------------------------------------
(* Vocabulary of the properties *)

AfterPool == {"csv", "email", "send", "done"}

InfoOfTicker(ticker) == yfInfo[KeyOf(ticker)]

AllPresent(info) ==
    /\ ~info.raises
    /\ info.returnOnEquity /= None
    /\ info.trailingPE /= None
    /\ info.priceToBook /= None

SomeMissing(info) ==
    /\ ~info.raises
    /\ \/ info.returnOnEquity = None
       \/ info.trailingPE = None
       \/ info.priceToBook = None

\* ROE > 10 and PER < 15 and PBR < 1, ROE being returnOnEquity times 100
Screened(info) ==
    /\ info.returnOnEquity[1] * 100 > 10 * Unit
    /\ info.trailingPE[1] < 15 * Unit
    /\ info.priceToBook[1] < 1 * Unit

Range(s) == {s[k] : k \in 1..Len(s)}
FilteredTickers == {filtered_stocks[k].Ticker : k \in 1..Len(filtered_stocks)}
CsvTickers == IF csv_file = None THEN {} ELSE {csv_file[1][k].Ticker : k \in 1..Len(csv_file[1])}
Tickers == Range(ticker_list)

\* the list a plain loop over the first k tickers builds
RECURSIVE SequentialRun(_)
SequentialRun(k) ==
    IF k = 0 THEN <<>>
    ELSE LET r == fetch_and_filter(ticker_list[k])
         IN IF r.kind = "row" THEN Append(SequentialRun(k - 1), r.row)
            ELSE SequentialRun(k - 1)

-----------------------------------------------------------------------------
(* C1: a ticker whose three fundamentals are all present yields a row     *)
(* exactly when ROE > 10 and PER < 15 and PBR < 1 hold strictly, and None *)
(* otherwise; after the pool the filtered set holds exactly those tickers. *)
C1Theorem ==
    /\ \A i \in Finished :
         LET info == InfoOfTicker(futures[i].ticker) IN
         AllPresent(info) =>
            /\ futures[i].result.kind = "row" <=> Screened(info)
            /\ ~Screened(info) => futures[i].result = NoResult
            /\ Screened(info) => futures[i].result.row.Ticker = futures[i].ticker
    /\ pc \in AfterPool =>
         \A t \in Tickers :
            AllPresent(InfoOfTicker(t)) => (t \in FilteredTickers <=> Screened(InfoOfTicker(t)))

\* a run ends with a ticker at ROE = 10 left out and a ticker above it kept
C1Witness ==
    /\ pc = "done"
    /\ \E t, u \in Tickers :
         /\ InfoOfTicker(t) = EdgeInfo
         /\ t \notin FilteredTickers
         /\ InfoOfTicker(u) = MatchInfo
         /\ u \in FilteredTickers

(* C2: a ticker with any of the three fields missing gets None, and no row *)
(* of it is in filtered_stocks, the merged frame or the CSV.               *)
C2Theorem ==
    /\ \A i \in Finished :
         SomeMissing(InfoOfTicker(futures[i].ticker)) => futures[i].result = NoResult
    /\ \A t \in Tickers :
         SomeMissing(InfoOfTicker(t)) =>
            /\ t \notin FilteredTickers
            /\ t \notin CsvTickers
            /\ \A k \in 1..Len(merged_df) : merged_df[k].Ticker /= t

\* a run ends whose ticker lacks only priceToBook, the other two passing
C2Witness ==
    /\ pc = "done"
    /\ \E i \in Finished :
         /\ InfoOfTicker(futures[i].ticker) = MissingInfo
         /\ i \in collected

(* C3: once the pool is left, filtered_stocks holds the same rows as a    *)
(* sequential loop over the ticker list, each once, in whatever order.     *)
C3Theorem ==
    pc \in AfterPool =>
       /\ Range(filtered_stocks) = Range(SequentialRun(Len(ticker_list)))
       /\ Len(filtered_stocks) = Len(SequentialRun(Len(ticker_list)))

\* a run whose rows were collected in another order than the sequential one
C3Witness ==
    /\ pc = "done"
    /\ Len(filtered_stocks) >= 2
    /\ filtered_stocks /= SequentialRun(Len(ticker_list))

(* C4: a ticker whose fetch raises gets None; the run does not crash or   *)
(* stop on it: it can always go on until done, and past the pool every     *)
(* ticker has been submitted, run and collected with its own result.       *)
C4Theorem ==
    /\ \A i \in Finished :
         InfoOfTicker(futures[i].ticker).raises => futures[i].result = NoResult
    /\ (\E t \in Tickers : InfoOfTicker(t).raises) =>
         /\ pc /= "crashed"
         /\ pc = "done" \/ ENABLED Next
         /\ pc \in AfterPool =>
              /\ Len(futures) = Len(ticker_list)
              /\ collected = 1..Len(futures)
              /\ \A i \in 1..Len(futures) :
                   /\ futures[i].state = "finished"
                   /\ futures[i].result.kind = "row" =>
                         futures[i].result.row \in Range(filtered_stocks)

\* a run is done in which one fetch raised and another ticker's row was mailed
C4Witness ==
    /\ pc = "done"
    /\ \E i, j \in Finished :
         /\ InfoOfTicker(futures[i].ticker).raises
         /\ futures[j].result.kind = "row"
         /\ futures[j].ticker \in CsvTickers
    /\ Len(outbox) = 1

(* C5: when the ticker list cannot be fetched the run stops there: no     *)
(* task is submitted, no CSV written, no message assembled or sent.        *)
C5Theorem ==
    jpx.error =>
       /\ pc \in {"fetch_list", "exited"}
       /\ futures = <<>>
       /\ csv_file = None
       /\ csv_writes = 0
       /\ msg = None
       /\ send_attempts = 0
       /\ outbox = <<>>

\* the run has exited on the list error although mail was configured
C5Witness ==
    /\ pc = "exited"
    /\ jpx.error
    /\ Truthy(GMAIL_USER) /\ Truthy(GMAIL_PASSWORD)
    /\ <<"list_error", "">> \in log

(* C6: a send step that leaves the message undelivered logs the error,    *)
(* leaves the CSV file as it was and ends the run normally.                *)
C6Theorem ==
    [][(pc = "send" /\ pc' /= "send" /\ outbox' = outbox) =>
          /\ csv_file' = csv_file
          /\ csv_writes' = csv_writes
          /\ pc' = "done"
          /\ \E e \in log' \ log : e[1] = "send_error"]_vars

\* the login was refused after a CSV had been written
C6Witness ==
    /\ pc = "done"
    /\ send_attempts = 1
    /\ outbox = <<>>
    /\ csv_file /= None
    /\ <<"send_error", "login">> \in log

(* C7 as stated: every completed run has written one CSV and sent one     *)
(* message with the CSV attached.                                          *)
C7Original ==
    pc = "done" =>
       /\ csv_writes = 1
       /\ csv_file /= None
       /\ Len(outbox) = 1
       /\ outbox[1].attachment /= None

(* C7 amended: a completed run has written the CSV once when some ticker  *)
(* matched and not at all otherwise; it has attempted one send when both   *)
(* credentials are set and none otherwise; a delivered message carries the *)
(* summary, and the CSV as attachment exactly when some ticker matched.    *)
C7Theorem ==
    pc = "done" =>
       /\ csv_writes = (IF filtered_stocks /= <<>> THEN 1 ELSE 0)
       /\ csv_writes = 0 => csv_file = None
       /\ csv_writes = 1 =>
            /\ csv_file /= None
            /\ Len(csv_file[1]) = Len(filtered_stocks)
            /\ \A k \in 1..Len(csv_file[1]) :
                 /\ DOMAIN csv_file[1][k] = {"Ticker", "name", "PBR", "PER", "ROE"}
                 /\ csv_file[1][k].Ticker = filtered_stocks[k].Ticker
                 /\ csv_file[1][k].name = <<"name", KeyOf(filtered_stocks[k].Ticker)>>
                 /\ csv_file[1][k].PBR = filtered_stocks[k].PBR
                 /\ csv_file[1][k].PER = filtered_stocks[k].PER
                 /\ csv_file[1][k].ROE = filtered_stocks[k].ROE
       /\ send_attempts = (IF Truthy(GMAIL_USER) /\ Truthy(GMAIL_PASSWORD) THEN 1 ELSE 0)
       /\ Len(outbox) <= send_attempts
       /\ \A k \in 1..Len(outbox) :
            /\ outbox[k].body.none <=> filtered_stocks = <<>>
            /\ outbox[k].attachment = csv_file
            /\ outbox[k].attachment /= None <=> filtered_stocks /= <<>>

\* a completed run that wrote the CSV and delivered it as attachment
C7Witness ==
    /\ pc = "done"
    /\ csv_writes = 1
    /\ Len(outbox) = 1
    /\ outbox[1].attachment = csv_file
    /\ csv_file /= None

C9Theorem ==
    (pc \in AfterPool \/ csv_writes > 0 \/ csv_file /= None \/ msg /= None \/ send_attempts > 0) =>
       /\ Len(futures) = Len(ticker_list)
       /\ Pending = {}
       /\ Running = {}
       /\ collected = 1..Len(futures)
       /\ \A i \in 1..Len(futures) :
            futures[i].result.kind = "row" => futures[i].result.row \in Range(filtered_stocks)

\* the message is assembled after a CSV of two tasks' results was written
C9Witness ==
    /\ pc = "send"
    /\ csv_writes = 1
    /\ msg /= None
    /\ Len(futures) >= 2

(* C10: at most 10 calls of fetch_and_filter run at a time, each ticker   *)
(* of the list is submitted once, and it has at most one row in            *)
(* filtered_stocks.                                                        *)
C10Theorem ==
    /\ Cardinality(Running) <= 10
    /\ Len(futures) <= Len(ticker_list)
    /\ \A i \in 1..Len(futures) : futures[i].ticker = ticker_list[i]
    /\ \A i, j \in 1..Len(ticker_list) : ticker_list[i] = ticker_list[j] => i = j
    /\ \A j, k \in 1..Len(filtered_stocks) :
         filtered_stocks[j].Ticker = filtered_stocks[k].Ticker => j = k

\* the pool is full and a submitted task waits in the queue
C10Witness ==
    /\ Cardinality(Running) = 10
    /\ Pending /= {}

====
